---- MODULE Spec2Model ----
(***************************************************************************)
(* Model of src/main.py: Employee, Manager, SalesPerson and Company.       *)
(* Objects live in a heap indexed by reference; lists hold references, so  *)
(* aliasing between Company.employees and Manager.employees is preserved.  *)
(* Salaries are in units of 10000, commission rates in hundredths.         *)
(* The name and department attributes are only printed and are left out.   *)
(***************************************************************************)
EXTENDS Integers, Sequences, FiniteSets, TLC

VARIABLES heap, company, last

vars == <<heap, company, last>>

\* ---------------------------------------------------------------- bounds
MaxEntries == 3      \* entries over all three lists together
MaxReports == 2      \* entries over the managers' lists together
MaxRaised  == 1      \* give_raise is offered while the sum of all raises
                     \* and rate bumps so far is below this

\* ------------------------------------------------------------- constants
RateStep == 1        \* 0.01, in hundredths
CtorRate == 10       \* 0.10, in hundredths

\* --------------------------------------------------------------- objects
\* e1, s1 and m1 are the Employee, SalesPerson and Manager of the example
\* usage (Alice 101, David 301, Charlie 201).  m2 is a second Manager, so
\* that a report can have reports of its own; it is given e1's id, which
\* the constructors do not prevent, so that lookups meet a shared id.
Entities     == {"e1", "s1", "m1", "m2"}
NonEmployees == {"x"}
Values       == Entities \cup NonEmployees
Amounts      == {-1, 0, 1}
None         == "None"

ClassOf == [e \in Entities |->
              CASE e = "e1" -> "Employee"
                [] e = "s1" -> "SalesPerson"
                [] OTHER    -> "Manager"]

Managers == {e \in Entities : ClassOf[e] = "Manager"}
Sales    == {e \in Entities : ClassOf[e] = "SalesPerson"}
Plain    == {e \in Entities : ClassOf[e] = "Employee"}

CtorId     == [e \in Entities |->
                 CASE e = "e1" -> 101 [] e = "s1" -> 301
                   [] e = "m1" -> 201 [] OTHER    -> 101]
CtorSalary == [e \in Entities |->
                 CASE e = "e1" -> 5 [] e = "s1" -> 4
                   [] e = "m1" -> 8 [] OTHER    -> 6]
LookupIds  == {101, 201, 301, 999}

isinstance_Employee(v) == v \in Entities

\* ---------------------------------------------------------- constructors
Employee_init(employee_id, salary) ==
    [employee_id |-> employee_id, salary |-> salary]

Manager_init(employee_id, salary) ==
    [employee_id |-> employee_id, salary |-> salary, employees |-> <<>>]

SalesPerson_init(employee_id, salary, commission_rate) ==
    [employee_id |-> employee_id, salary |-> salary,
     commission_rate |-> commission_rate, sales_achieved |-> 0]

get_employee_id(o) == o.employee_id

calculate_commission(o) == o.commission_rate * o.sales_achieved

\* ------------------------------------------------------------ list tools
RECURSIVE IndexOf(_, _, _)
IndexOf(s, v, i) ==
    IF i > Len(s) THEN 0
    ELSE IF s[i] = v THEN i ELSE IndexOf(s, v, i + 1)

list_contains(s, v) == IndexOf(s, v, 1) # 0

\* Mutant: removes the head of the list instead of the first match.
list_remove_head(s, v) == Tail(s)

\* Mutant: removes the last match instead of the first.
list_remove_last(s, v) ==
    LET i == CHOOSE k \in DOMAIN s :
                 s[k] = v /\ \A j \in DOMAIN s : s[j] = v => j <= k
    IN  SubSeq(s, 1, i - 1) \o SubSeq(s, i + 1, Len(s))

list_remove(s, v) ==
    LET i == IndexOf(s, v, 1)
    IN  SubSeq(s, 1, i - 1) \o SubSeq(s, i + 1, Len(s))

list_append(s, v) == Append(s, v)

\* ------------------------------------------------------------ give_raise
\* A call state is [heap, calls]: the heap and the number of give_raise
\* invocations made so far.
\* Mutant: the amount > 0 test is missing.
Employee_give_raise_unguarded(st, e, amount) ==
    [heap  |-> [st.heap EXCEPT ![e].salary = @ + amount],
     calls |-> st.calls + 1]

\* Mutant: the raise also overwrites the id.
Employee_give_raise_clobbers_id(st, e, amount) ==
    [heap  |-> IF amount > 0
               THEN [st.heap EXCEPT ![e].salary = @ + amount,
                                    ![e].employee_id = amount]
               ELSE st.heap,
     calls |-> st.calls + 1]

Employee_give_raise(st, e, amount) ==
    [heap  |-> IF amount > 0
               THEN [st.heap EXCEPT ![e].salary = @ + amount]
               ELSE st.heap,
     calls |-> st.calls + 1]

\* Mutant: the commission rate only rises when the raise is accepted.
SalesPerson_give_raise_valid_only(st, e, amount) ==
    LET b == Employee_give_raise(st, e, amount)
    IN  IF amount > 0
        THEN [b EXCEPT !.heap[e].commission_rate = @ + RateStep]
        ELSE b

SalesPerson_give_raise(st, e, amount) ==
    LET b == Employee_give_raise(st, e, amount)
    IN  [b EXCEPT !.heap[e].commission_rate = @ + RateStep]

RECURSIVE give_raise(_, _, _, _)
RECURSIVE RaiseReports(_, _, _)

\* The base and SalesPerson raises over a list, with no Manager dispatch.
RECURSIVE RaiseFlat(_, _, _)
RaiseFlat(st, emps, amount) ==
    IF emps = <<>> THEN st
    ELSE RaiseFlat(IF ClassOf[Head(emps)] = "SalesPerson"
                   THEN SalesPerson_give_raise(st, Head(emps), amount)
                   ELSE Employee_give_raise(st, Head(emps), amount),
                   Tail(emps), amount)

\* Mutant: a report that is a Manager passes the raise on to its reports.
RECURSIVE RaiseReportsTwoLevels(_, _, _)
RaiseReportsTwoLevels(st, emps, amount) ==
    IF emps = <<>> THEN st
    ELSE LET r == Head(emps)
             a == RaiseFlat(st, <<r>>, amount)
             b == IF ClassOf[r] = "Manager"
                  THEN RaiseFlat(a, a.heap[r].employees, amount)
                  ELSE a
         IN  RaiseReportsTwoLevels(b, Tail(emps), amount)

\* Mutant: the loop stops after the first report.
RaiseReportsFirstOnly(st, emps, amount) ==
    IF emps = <<>> THEN st
    ELSE give_raise(st, Head(emps), amount, FALSE)

RaiseReports(st, emps, amount) ==
    IF emps = <<>> THEN st
    ELSE RaiseReports(give_raise(st, Head(emps), amount, FALSE),
                      Tail(emps), amount)

Manager_give_raise(st, m, amount, include_reports) ==
    LET b == Employee_give_raise(st, m, amount)
    IN  IF include_reports
        THEN RaiseReports(b, b.heap[m].employees, amount)
        ELSE b

give_raise(st, e, amount, include_reports) ==
    CASE ClassOf[e] = "Manager"     -> Manager_give_raise(st, e, amount, include_reports)
      [] ClassOf[e] = "SalesPerson" -> SalesPerson_give_raise(st, e, amount)
      [] OTHER                      -> Employee_give_raise(st, e, amount)

\* --------------------------------------------------------------- Company
\* Mutant: the scan keeps going and returns the last match.
RECURSIVE get_employee_by_id_last(_, _, _)
get_employee_by_id_last(h, emps, employee_id) ==
    IF emps = <<>> THEN None
    ELSE IF get_employee_id(h[emps[Len(emps)]]) = employee_id THEN emps[Len(emps)]
    ELSE get_employee_by_id_last(h, SubSeq(emps, 1, Len(emps) - 1), employee_id)

RECURSIVE get_employee_by_id(_, _, _)
get_employee_by_id(h, emps, employee_id) ==
    IF emps = <<>> THEN None
    ELSE IF get_employee_id(h[Head(emps)]) = employee_id THEN Head(emps)
    ELSE get_employee_by_id(h, Tail(emps), employee_id)

\* Mutant: a SalesPerson's commission rate is added to the total.
RECURSIVE calculate_total_salary_with_commission(_, _, _)
calculate_total_salary_with_commission(h, emps, total_salary) ==
    IF emps = <<>> THEN total_salary
    ELSE calculate_total_salary_with_commission(h, Tail(emps),
             total_salary + h[Head(emps)].salary
             + IF ClassOf[Head(emps)] = "SalesPerson"
               THEN h[Head(emps)].commission_rate ELSE 0)

RECURSIVE calculate_total_salary(_, _, _)
calculate_total_salary(h, emps, total_salary) ==
    IF emps = <<>> THEN total_salary
    ELSE calculate_total_salary(h, Tail(emps), total_salary + h[Head(emps)].salary)

\* Mutant: the isinstance test is missing.
add_employee_unchecked(emps, v) == list_append(emps, v)

add_employee(emps, v) ==
    IF isinstance_Employee(v) THEN list_append(emps, v) ELSE emps

remove_employee(emps, e) ==
    IF list_contains(emps, e) THEN list_remove(emps, e) ELSE emps

\* ---------------------------------------------------------------- guards
ReportEntries == Len(heap["m1"].employees) + Len(heap["m2"].employees)

TotalEntries == Len(company) + ReportEntries

RaisedSoFar ==
    (heap["e1"].salary - CtorSalary["e1"]) + (heap["s1"].salary - CtorSalary["s1"])
    + (heap["m1"].salary - CtorSalary["m1"]) + (heap["m2"].salary - CtorSalary["m2"])
    + (heap["s1"].commission_rate - CtorRate)

\* The last operation: its name, the object it was called on, what it
\* returned, how many give_raise invocations it made, and (for a Manager
\* add_employee, and a remove_employee of the same entity right after it)
\* the pair <<added value, report list before the add>>; for a Company
\* remove_employee, the pair <<removed entity, list before the remove>>.
NoOp == [op |-> "init", self |-> None, ret |-> None, calls |-> 0, base |-> <<>>]

Range(s) == {s[i] : i \in DOMAIN s}

\* ------------------------------------------------------------------ Init
Init ==
    /\ heap = [e \in Entities |->
                 CASE ClassOf[e] = "Manager" -> Manager_init(CtorId[e], CtorSalary[e])
                   [] ClassOf[e] = "SalesPerson" ->
                          SalesPerson_init(CtorId[e], CtorSalary[e], CtorRate)
                   [] OTHER -> Employee_init(CtorId[e], CtorSalary[e])]
    /\ company = <<>>
    /\ last = NoOp

\* --------------------------------------------------------------- actions
DoRaise(e, amount, incl) ==
    LET r == give_raise([heap |-> heap, calls |-> 0], e, amount, incl)
    IN  /\ RaisedSoFar < MaxRaised
        /\ heap' = r.heap
        /\ last' = [NoOp EXCEPT !.op = "give_raise", !.self = e, !.calls = r.calls]
        /\ UNCHANGED company

EmployeeGiveRaise ==
    \E e \in Plain, amount \in Amounts : DoRaise(e, amount, FALSE)

SalesPersonGiveRaise ==
    \E e \in Sales, amount \in Amounts : DoRaise(e, amount, FALSE)

ManagerGiveRaise ==
    \E m \in Managers, amount \in Amounts, incl \in BOOLEAN : DoRaise(m, amount, incl)

MgrAdd(m, v) ==
    /\ isinstance_Employee(v) =>
         TotalEntries < MaxEntries /\ ReportEntries < MaxReports
    /\ heap' = [heap EXCEPT ![m].employees = add_employee(@, v)]
    /\ last' = [NoOp EXCEPT !.op = "mgr_add", !.self = m,
                            !.base = <<<<v>>, heap[m].employees>>]
    /\ UNCHANGED company

MgrRemove(m, e) ==
    /\ heap' = [heap EXCEPT ![m].employees = remove_employee(@, e)]
    /\ last' = [NoOp EXCEPT !.op = "mgr_remove", !.self = m,
                            !.base = IF last.op = "mgr_add" /\ last.self = m
                                        /\ last.base[1] = <<e>>
                                     THEN last.base ELSE <<>>]
    /\ UNCHANGED company

CoAdd(v) ==
    /\ isinstance_Employee(v) => TotalEntries < MaxEntries
    /\ company' = add_employee(company, v)
    /\ last' = [NoOp EXCEPT !.op = "co_add", !.self = "company"]
    /\ UNCHANGED heap

CoRemove(e) ==
    /\ company' = remove_employee(company, e)
    /\ last' = [NoOp EXCEPT !.op = "co_remove", !.self = "company",
                            !.base = <<<<e>>, company>>]
    /\ UNCHANGED heap

Lookup(id) ==
    /\ last' = [NoOp EXCEPT !.op = "lookup", !.self = "company",
                            !.ret = get_employee_by_id(heap, company, id)]
    /\ UNCHANGED <<heap, company>>

ManagerAddEmployee == \E m \in Managers, v \in Values : MgrAdd(m, v)

ManagerRemoveEmployee == \E m \in Managers, e \in Entities : MgrRemove(m, e)

CompanyAddEmployee == \E v \in Values : CoAdd(v)

CompanyRemoveEmployee == \E e \in Entities : CoRemove(e)

GetEmployeeById == \E id \in LookupIds : Lookup(id)

CalculateTotalSalary ==
    /\ last' = [NoOp EXCEPT !.op = "total", !.self = "company",
                            !.ret = calculate_total_salary(heap, company, 0)]
    /\ UNCHANGED <<heap, company>>

Next ==
    \/ EmployeeGiveRaise
    \/ SalesPersonGiveRaise
    \/ ManagerGiveRaise
    \/ ManagerAddEmployee
    \/ ManagerRemoveEmployee
    \/ CompanyAddEmployee
    \/ CompanyRemoveEmployee
    \/ GetEmployeeById
    \/ CalculateTotalSalary

Spec == Init /\ [][Next]_vars

NextRaise ==
    \/ EmployeeGiveRaise
    \/ SalesPersonGiveRaise
    \/ ManagerGiveRaise
    \/ ManagerAddEmployee
    \/ ManagerRemoveEmployee

SpecRaise == Init /\ [][NextRaise]_vars

NextLists ==
    \/ ManagerAddEmployee
    \/ ManagerRemoveEmployee
    \/ CompanyAddEmployee
    \/ CompanyRemoveEmployee

SpecLists == Init /\ [][NextLists]_vars

NextCompany ==
    \/ EmployeeGiveRaise
    \/ SalesPersonGiveRaise
    \/ ManagerGiveRaise
    \/ CompanyAddEmployee
    \/ CompanyRemoveEmployee
    \/ GetEmployeeById
    \/ CalculateTotalSalary

SpecCompany == Init /\ [][NextCompany]_vars

\* ============================================================== claims
Count(s, v) == Cardinality({i \in DOMAIN s : s[i] = v})

Pos(amount) == IF amount > 0 THEN amount ELSE 0

Reports(m) == heap[m].employees

Unique(s) == \A e \in Entities : Count(s, e) <= 1

\* C1: give_raise(amount) with amount > 0 increases the salary of the entity
\* it is called on by exactly amount, and with amount <= 0 leaves it
\* unchanged, for an Employee, a Manager and a SalesPerson.
C1_GiveRaiseExact ==
    [][\A e \in Entities, amount \in Amounts :
          (last'.op = "give_raise" /\ last'.self = e /\ DoRaise(e, amount, FALSE)) =>
             /\ amount > 0  => heap'[e].salary = heap[e].salary + amount
             /\ amount <= 0 => heap'[e].salary = heap[e].salary]_vars

\* A Manager with a report has had a valid give_raise(amount): its salary
\* rose, one invocation.
C1_Witness ==
    /\ last.op = "give_raise" /\ last.self = "m1" /\ last.calls = 1
    /\ Reports("m1") # <<>>
    /\ heap["m1"].salary = CtorSalary["m1"] + 1

\* C2: get_employee_id() of every entity is the id passed to its
\* constructor, in every reachable state.
C2_IdImmutable ==
    \A e \in Entities : get_employee_id(heap[e]) = CtorId[e]

\* A lookup found the SalesPerson by its constructor id after a raise
\* changed salaries and while a Manager has reports.
C2_Witness ==
    /\ last.op = "lookup" /\ last.ret = "s1"
    /\ heap["s1"].salary > CtorSalary["s1"]
    /\ Reports("m1") # <<>>
    /\ get_employee_id(heap["s1"]) = 301

\* C3: SalesPerson.give_raise(amount) raises commission_rate by exactly one
\* hundredth for every amount, valid or not.
C3_CommissionBump ==
    [][\A e \in Sales, amount \in Amounts :
          (last'.op = "give_raise" /\ last'.self = e /\ DoRaise(e, amount, FALSE)) =>
             /\ heap'[e].commission_rate = heap[e].commission_rate + 1
             /\ heap'[e].salary = heap[e].salary + Pos(amount)]_vars

\* The SalesPerson's give_raise was called with an invalid amount: the
\* salary is as constructed, the rate is one hundredth higher.
C3_Witness ==
    /\ last.op = "give_raise" /\ last.self = "s1"
    /\ heap["s1"].salary = CtorSalary["s1"]
    /\ heap["s1"].commission_rate = CtorRate + 1

\* C4 as stated: Manager.give_raise raises the manager's salary by the base
\* rule; with include_reports every entity in reports has the amount applied
\* by its own give_raise; without it no report's salary or commission_rate
\* changes.
C4_Original ==
    [][\A m \in Managers, amount \in Amounts, incl \in BOOLEAN :
          (last'.op = "give_raise" /\ last'.self = m /\ DoRaise(m, amount, incl)) =>
             /\ heap'[m].salary = heap[m].salary + Pos(amount)
             /\ \A e \in Range(Reports(m)) :
                   IF incl
                   THEN /\ heap'[e].salary = heap[e].salary + Pos(amount)
                        /\ e \in Sales =>
                             heap'[e].commission_rate = heap[e].commission_rate + 1
                   ELSE heap'[e] = heap[e]]_vars

\* C4 amended: the manager's salary is raised by the base rule; with
\* include_reports each report's own give_raise(amount) is applied once per
\* occurrence of the report in reports (a manager listed in its own reports
\* is raised again as a report); without it no report other than the manager
\* itself changes.
C4_PerOccurrence ==
    [][\A m \in Managers, amount \in Amounts, incl \in BOOLEAN :
          (last'.op = "give_raise" /\ last'.self = m /\ DoRaise(m, amount, incl)) =>
             \A e \in Range(Reports(m)) \cup {m} :
                LET k == IF incl THEN Count(Reports(m), e) ELSE 0
                    n == k + IF e = m THEN 1 ELSE 0
                IN  /\ heap'[e].salary = heap[e].salary + n * Pos(amount)
                    /\ e \in Sales =>
                         heap'[e].commission_rate = heap[e].commission_rate + k]_vars

\* The example: salaries 8, 5 and 4 (in 10000s) and rate 0.10 have become
\* 9, 6, 5 and 0.11 after give_raise(1, true) on reports <<e1, s1>>.
C4_Witness ==
    /\ last.op = "give_raise" /\ last.self = "m1" /\ last.calls = 3
    /\ Reports("m1") = <<"e1", "s1">>
    /\ heap["m1"].salary = 9
    /\ heap["e1"].salary = 6
    /\ heap["s1"].salary = 5
    /\ heap["s1"].commission_rate = 11

\* C5: Manager.add_employee(e) immediately followed by remove_employee(e),
\* with e not in reports before the add, leaves reports as before the add.
C5_RoundTrip ==
    (/\ last.op = "mgr_remove"
     /\ last.base # <<>>
     /\ ~list_contains(last.base[2], last.base[1][1]))
    => Reports(last.self) = last.base[2]

\* A round trip on a non-empty report list has completed.
C5_Witness ==
    /\ last.op = "mgr_remove"
    /\ last.base # <<>>
    /\ last.base[2] # <<>>
    /\ ~list_contains(last.base[2], last.base[1][1])
    /\ Reports(last.self) = last.base[2]

\* C6: calculate_total_salary() returns the sum of the salary fields of the
\* members of Company.employees, each counted as often as it is listed and
\* with no commission, and changes no state.
C6_TotalSalary ==
    [][last'.op = "total" =>
          /\ last'.ret = (Count(company, "e1") * heap["e1"].salary
                          + Count(company, "s1") * heap["s1"].salary
                          + Count(company, "m1") * heap["m1"].salary
                          + Count(company, "m2") * heap["m2"].salary)
          /\ heap' = heap
          /\ company' = company]_vars

\* The total over an Employee, a Manager and a SalesPerson after a raise
\* of the SalesPerson.
C6_Witness ==
    /\ last.op = "total"
    /\ Range(company) = {"e1", "m1", "s1"}
    /\ heap["s1"].salary = CtorSalary["s1"] + 1
    /\ heap["s1"].commission_rate = CtorRate + 1
    /\ last.ret = 5 + 8 + 5

\* C7: get_employee_by_id(id) returns None when no member has the id, the
\* member when exactly one has it, and the first in sequence order when
\* several have it.
C7_Lookup ==
    [][\A id \in LookupIds :
          Lookup(id) =>
             LET M == {i \in DOMAIN company : heap[company[i]].employee_id = id}
                 U == {company[i] : i \in M}
             IN  /\ M = {} => last'.ret = None
                 /\ \A u \in U : U = {u} => last'.ret = u
                 /\ \A i \in M : (\A j \in M : i <= j) => last'.ret = company[i]]_vars

\* A lookup of an id shared by two members returned the one listed first.
C7_Witness ==
    /\ last.op = "lookup" /\ last.ret = "m2"
    /\ company = <<"s1", "m2", "e1">>

\* C8: for a Manager and for the Company, add_employee of a value that is
\* not an Employee and remove_employee of an absent entity leave the
\* collection unchanged; remove_employee of a present entity removes its
\* first occurrence and nothing else.
C8_InvalidNoOp ==
    [][/\ \A m \in Managers, v \in NonEmployees : MgrAdd(m, v) => heap' = heap
       /\ \A v \in NonEmployees : CoAdd(v) => company' = company
       /\ \A m \in Managers, e \in Entities :
             MgrRemove(m, e) =>
                IF e \in Range(Reports(m))
                THEN \E i \in DOMAIN Reports(m) :
                        /\ Reports(m)[i] = e
                        /\ \A j \in 1..(i - 1) : Reports(m)[j] # e
                        /\ heap'[m].employees =
                             [k \in 1..(Len(Reports(m)) - 1) |->
                                IF k < i THEN Reports(m)[k] ELSE Reports(m)[k + 1]]
                ELSE heap' = heap
       /\ \A e \in Entities :
             CoRemove(e) =>
                IF e \in Range(company)
                THEN \E i \in DOMAIN company :
                        /\ company[i] = e
                        /\ \A j \in 1..(i - 1) : company[j] # e
                        /\ company' =
                             [k \in 1..(Len(company) - 1) |->
                                IF k < i THEN company[k] ELSE company[k + 1]]
                ELSE company' = company]_vars

\* The entity listed first and last was removed from the Company: the
\* later occurrence is the one that stays.
C8_Witness ==
    /\ last.op = "co_remove"
    /\ last.base = << <<"e1">>, <<"e1", "m1", "e1">> >>
    /\ company = <<"m1", "e1">>

\* C9 as stated: no entity appears in Company.employees more than once.
C9_Original == Unique(company)

\* C9 amended: Company.employees holds only Employee-like entities, and
\* every step keeps it free of duplicates except an add_employee of an
\* entity that is already in it, which add_employee does not refuse.
C9_UniqueUnlessReAdded ==
    /\ [](Range(company) \subseteq Entities)
    /\ [][(/\ Unique(company)
           /\ ~ \E v \in Range(company) : CoAdd(v))
          => Unique(company')]_vars

\* Three distinct entities have been added and one removed, with no
\* duplicate.
C9_Witness ==
    /\ last.op = "co_remove"
    /\ Len(last.base[2]) = 3
    /\ Unique(last.base[2])
    /\ Len(company) = 2
    /\ Unique(company)

\* C10: Manager.give_raise(amount, true) makes exactly one invocation per
\* entry of the manager's reports after its own, changes no entity outside
\* the manager and its reports, and changes no report list, so nothing
\* reachable only through a report's reports is raised.
C10_OneLevel ==
    [][\A m \in Managers, amount \in Amounts :
          (last'.op = "give_raise" /\ last'.self = m /\ DoRaise(m, amount, TRUE)) =>
             /\ last'.calls = 1 + Len(Reports(m))
             /\ \A e \in Entities \ (Range(Reports(m)) \cup {m}) : heap'[e] = heap[e]
             /\ \A e \in Managers : heap'[e].employees = heap[e].employees
             /\ \A e \in (Range(Reports(m)) \cap Managers) \ {m} :
                   heap'[e].salary = heap[e].salary
                                     + Count(Reports(m), e) * Pos(amount)]_vars

\* m1 reports m2, m2 reports e1: after m1.give_raise(1, true) m1 and m2
\* are raised and e1 is not.
C10_Witness ==
    /\ last.op = "give_raise" /\ last.self = "m1" /\ last.calls = 2
    /\ Reports("m1") = <<"m2">>
    /\ Reports("m2") = <<"e1">>
    /\ heap["m1"].salary = CtorSalary["m1"] + 1
    /\ heap["m2"].salary = CtorSalary["m2"] + 1
    /\ heap["e1"].salary = CtorSalary["e1"]
====
